---- MODULE Spec2Model ----
(***************************************************************************)
(* Concurrent sitemap crawlers of the repository:                          *)
(*   spider_sitemap.py     worker loops over a shared url_queue  (Spec)    *)
(*   spider_sitemap_v2.py  the same engine, second variant       (SpecV2)  *)
(*   spider_doc.py         coordinator loop submitting tasks     (SpecDoc) *)
(* spider_sitemap.py is also run write by write (SpecLines), with failing  *)
(* links and failing writes (SpecErr) and under fair scheduling (FairSpec).*)
(* A URL is a sequence of tokens <<scheme, netloc, path char, ...>>; the   *)
(* sitemap file is the sequence of the lines written to it.                *)
(***************************************************************************)
EXTENDS Integers, Sequences, FiniteSets, TLC

(* ---------------- bounds of the model ---------------- *)
\* thread-pool sizes tried: max_workers ranges over 1..MaxWorkers
MaxWorkers == 2
\* semaphore capacities tried: 1 (fetches serialised) and MaxConcurrentRequests
MaxConcurrentRequests == 2

(* ---------------- the URLs of the modelled site ---------------- *)
Root     == <<"https", "a", "d">>
PageA    == <<"https", "a", "d", "x">>
PageB    == <<"https", "a", "d", " ">>
PageC    == <<"https", "a", "d", "z">>
OutPage  == <<"https", "a", "e">>
Foreign  == <<"https", "b", "d">>
ForeignQ == <<"https", "b", "d", "q">>
\* an absolute-path reference "/dx", which urljoin resolves to PageA
RelA     == <<"/", "d", "x">>
\* an empty href
NoHref   == <<>>

\* a second section of the site, whose index page carries an href that
\* urljoin cannot resolve ("http://[" makes urlsplit raise ValueError)
ErrRoot == <<"https", "a", "f">>
ErrA    == <<"https", "a", "f", "x">>
ErrB    == <<"https", "a", "f", "y">>
BadHref == <<"http", "[">>

AllUrls == {Root, PageA, PageB, PageC, OutPage, Foreign, ForeignQ, ErrRoot, ErrA, ErrB}

\* the configurations tried for base_urls (absolute, well-formed URLs)
RootLists == {<<Root>>, <<Root, PageA>>, <<Root, Root>>, <<Root, Foreign>>}

\* the href attributes of the <a> elements of each page, in document order
Anchors(page) ==
    CASE page = Root    -> <<PageA, NoHref, OutPage, PageB>>
      [] page = PageA   -> <<PageC, ForeignQ>>
      [] page = PageB   -> <<RelA, PageC>>
      [] page = Foreign -> <<ForeignQ>>
      [] page = ErrRoot -> <<ErrA, BadHref, ErrB>>
      [] OTHER          -> <<>>

(* ---------------- URL helpers ---------------- *)
Range(s) == {s[k] : k \in 1..Len(s)}

scheme(u) == IF Len(u) >= 1 THEN u[1] ELSE ""
netloc(u) == IF Len(u) >= 2 THEN u[2] ELSE ""

startswith(u, prefix) ==
    /\ Len(prefix) <= Len(u)
    /\ SubSeq(u, 1, Len(prefix)) = prefix

urljoin(base, href) ==
    IF Len(href) >= 1 /\ href[1] = "/"
    THEN <<base[1], base[2]>> \o Tail(href)
    ELSE href

\* urljoin(url, href) raises ValueError instead of returning
urljoin_raises(href) == href = BadHref

(* ---------------- the sitemap file ---------------- *)
HeaderLines == << <<"<?xml>">>, <<"<urlset>">> >>
FooterLine  == <<"</urlset>">>
LocLine(u)  == <<"<loc>">> \o u
EntryLines(u) ==
    << <<"<url>">>, LocLine(u), <<"<lastmod>", "2012-12-01">>,
       <<"<changefreq>", "daily">>, <<"<priority>", "0.8">>, <<"</url>">> >>

\* spider_sitemap_v2.py: quote(url, safe=':/?=&%') percent-encodes the
\* characters outside the safe set; of the tokens used here, the space
quote(u) == [k \in 1..Len(u) |-> IF u[k] = " " THEN "%20" ELSE u[k]]
NAV_URLS == {Root, PageA}
EntryLinesV2(u) ==
    << <<"<url>">>, LocLine(quote(u)), <<"<lastmod>", "today">>,
       <<"<changefreq>", "daily">>,
       <<"<priority>", IF u \in NAV_URLS THEN "1" ELSE "0.8">>, <<"</url>">> >>

\* how many <loc> lines of the file name u
Count(f, u) == Cardinality({k \in 1..Len(f) : f[k] = LocLine(u)})
\* the URLs the file lists
Listed(f) == {u \in AllUrls : Count(f, u) > 0}

(* ---------------- state ---------------- *)
VARIABLES
    base_urls, recursive, max_workers, max_concurrent_requests,
    visited_urls, url_queue, url_lock, sitemap_lock, semaphore,
    sitemap, mainpc, i, pc, url, links,
    puts, fetches, processed, ok, failed,
    futures, task,
    write_failed

config == <<base_urls, recursive, max_workers, max_concurrent_requests>>
locks  == <<url_lock, sitemap_lock, semaphore>>
mainv  == <<mainpc, i>>
ghost  == <<puts, fetches, processed, ok, failed>>
docv   == <<futures, task>>
errv   == <<write_failed>>
vars   == <<config, docv, errv, visited_urls, url_queue, locks, sitemap, mainv, pc, url, links, ghost>>

Workers == 1..MaxWorkers
Free    == 0
Main    == MaxWorkers + 1
NoUrl   == <<>>

domain    == netloc(base_urls[1])
root_urls == Range(base_urls)

is_valid_url(u) == scheme(u) # "" /\ netloc(u) # ""

is_under_root_urls(u) == \E k \in 1..Len(base_urls) : startswith(u, base_urls[k])

\* mutant: the host of the link is not compared with the crawl domain
is_valid_link_to_crawl_AnyHost(full_url) ==
    /\ is_under_root_urls(full_url)
    /\ full_url \notin visited_urls

is_valid_link_to_crawl(full_url) ==
    /\ netloc(full_url) = domain
    /\ is_under_root_urls(full_url)
    /\ full_url \notin visited_urls

\* mutant: the root pages are not expanded unless the run is recursive
should_process_links_RecursiveOnly(u) == recursive

should_process_links(u) == recursive \/ u \in root_urls

Inc(f, u) == [f EXCEPT ![u] = @ + 1]

(* ---------------- construction: WebCrawler.__init__ ---------------- *)
\* the state before main constructs the crawler; the output file may hold
\* the lines of an earlier run
Init ==
    /\ base_urls \in RootLists
    /\ recursive \in BOOLEAN
    /\ max_workers \in 1..MaxWorkers
    /\ max_concurrent_requests \in {1, MaxConcurrentRequests}
    /\ visited_urls = {}
    /\ url_queue = <<>>
    /\ url_lock = Free
    /\ sitemap_lock = Free
    /\ semaphore = max_concurrent_requests
    /\ sitemap \in {<<>>, HeaderLines \o <<FooterLine>>}
    /\ mainpc = "init"
    /\ i = 1
    /\ pc = [w \in Workers |-> "idle"]
    /\ url = [w \in Workers |-> NoUrl]
    /\ links = [w \in Workers |-> <<>>]
    /\ puts = [u \in AllUrls |-> 0]
    /\ fetches = [u \in AllUrls |-> 0]
    /\ processed = [u \in AllUrls |-> 0]
    /\ ok = {}
    /\ failed = {}
    /\ futures = <<>>
    /\ task = [w \in Workers |-> 0]
    /\ write_failed = FALSE

\* _init_sitemap_file: open(..., 'w') truncates, then the two header lines
_init_sitemap_file ==
    /\ mainpc = "init"
    /\ sitemap' = HeaderLines
    /\ mainpc' = "seed"
    /\ UNCHANGED <<config, errv, docv, visited_urls, url_queue, locks, i, pc, url, links, ghost>>

(* ---------------- crawl_parallel (main thread) ---------------- *)
\* one iteration of "for url in self.base_urls": put, then visited_urls.add
SeedRoot ==
    /\ mainpc = "seed"
    /\ url_queue' = Append(url_queue, base_urls[i])
    /\ visited_urls' = visited_urls \cup {base_urls[i]}
    /\ puts' = Inc(puts, base_urls[i])
    /\ IF i = Len(base_urls)
       THEN mainpc' = "submit" /\ i' = 1
       ELSE mainpc' = "seed" /\ i' = i + 1
    /\ UNCHANGED <<config, errv, docv, locks, sitemap, pc, url, links, fetches, processed, ok, failed>>

\* one iteration of "for _ in range(self.executor._max_workers)": submit(crawl_worker)
SubmitWorker ==
    /\ mainpc = "submit"
    /\ pc' = [pc EXCEPT ![i] = "get"]
    /\ IF i = max_workers
       THEN mainpc' = "join" /\ i' = 1
       ELSE mainpc' = "submit" /\ i' = i + 1
    /\ UNCHANGED <<config, errv, docv, visited_urls, url_queue, locks, sitemap, url, links, ghost>>

\* mutant: only the first worker is waited for
JoinWorkers_FirstOnly ==
    /\ mainpc = "join"
    /\ pc[1] = "exited"
    /\ mainpc' = "finalize"
    /\ UNCHANGED <<config, errv, docv, visited_urls, url_queue, locks, sitemap, i, pc, url, links, ghost>>

\* "for worker in workers: worker.result()" returns once every worker has exited
JoinWorkers ==
    /\ mainpc = "join"
    /\ \A w \in 1..max_workers : pc[w] = "exited"
    /\ mainpc' = "finalize"
    /\ UNCHANGED <<config, errv, docv, visited_urls, url_queue, locks, sitemap, i, pc, url, links, ghost>>

(* ---------------- finalize_sitemap (main thread) ---------------- *)
FinalizeLock ==
    /\ mainpc = "finalize"
    /\ sitemap_lock = Free
    /\ sitemap_lock' = Main
    /\ mainpc' = "footer"
    /\ UNCHANGED <<config, errv, docv, visited_urls, url_queue, url_lock, semaphore, sitemap, i, pc, url, links, ghost>>

FinalizeWrite ==
    /\ mainpc = "footer"
    /\ sitemap' = Append(sitemap, FooterLine)
    /\ sitemap_lock' = Free
    /\ mainpc' = "done"
    /\ UNCHANGED <<config, errv, docv, visited_urls, url_queue, url_lock, semaphore, i, pc, url, links, ghost>>

(* ---------------- crawl_worker ---------------- *)
\* url_queue.get(timeout=1) returns the head of the queue
Get(w) ==
    /\ pc[w] = "get"
    /\ url_queue # <<>>
    /\ url' = [url EXCEPT ![w] = Head(url_queue)]
    /\ url_queue' = Tail(url_queue)
    /\ pc' = [pc EXCEPT ![w] = "process_url"]
    /\ UNCHANGED <<config, errv, docv, visited_urls, locks, sitemap, mainv, links, ghost>>

\* mutant: on queue.Empty the worker waits again instead of leaving its loop
Timeout_WaitsAgain(w) ==
    /\ pc[w] = "get"
    /\ url_queue = <<>>
    /\ UNCHANGED vars

\* mutant: the worker gives up without the queue being empty
Timeout_AnyTime(w) ==
    /\ pc[w] = "get"
    /\ pc' = [pc EXCEPT ![w] = "exited"]
    /\ UNCHANGED <<config, errv, docv, visited_urls, url_queue, locks, sitemap, mainv, url, links, ghost>>

\* url_queue.get(timeout=1) raises Empty: the queue stayed empty for the
\* whole wait, and the worker breaks out of its loop
Timeout(w) ==
    /\ pc[w] = "get"
    /\ url_queue = <<>>
    /\ pc' = [pc EXCEPT ![w] = "exited"]
    /\ UNCHANGED <<config, errv, docv, visited_urls, url_queue, locks, sitemap, mainv, url, links, ghost>>

(* ---------------- process_url ---------------- *)
\* process_url returns into crawl_worker, which calls task_done and loops;
\* slot tells whether the semaphore slot is held (released by "with")
Return(w, slot) ==
    /\ semaphore' = IF slot THEN semaphore + 1 ELSE semaphore
    /\ processed' = Inc(processed, url[w])
    /\ pc' = [pc EXCEPT ![w] = "get"]
    /\ url' = [url EXCEPT ![w] = NoUrl]
    /\ links' = [links EXCEPT ![w] = <<>>]

\* "if not self.is_valid_url(url) or not self.is_under_root_urls(url): return",
\* else "with self.semaphore:" takes a slot
EnterProcessUrl(w) ==
    /\ pc[w] = "process_url"
    /\ IF ~is_valid_url(url[w]) \/ ~is_under_root_urls(url[w])
       THEN Return(w, FALSE)
       ELSE /\ semaphore > 0
            /\ semaphore' = semaphore - 1
            /\ pc' = [pc EXCEPT ![w] = "fetch"]
            /\ UNCHANGED <<url, links, processed>>
    /\ UNCHANGED <<config, errv, docv, visited_urls, url_queue, url_lock, sitemap_lock, sitemap, mainv, puts, fetches, ok, failed>>

\* requests.get answers 200
Fetch200(w) ==
    /\ pc[w] = "fetch"
    /\ fetches' = Inc(fetches, url[w])
    /\ ok' = ok \cup {url[w]}
    /\ pc' = [pc EXCEPT ![w] = "append"]
    /\ UNCHANGED <<config, errv, docv, visited_urls, url_queue, locks, sitemap, mainv, url, links, puts, processed, failed>>

\* mutant: the early return leaves the "with" block without giving the slot back
FetchNon200_KeepsSlot(w) ==
    /\ pc[w] = "fetch"
    /\ fetches' = Inc(fetches, url[w])
    /\ failed' = failed \cup {url[w]}
    /\ Return(w, FALSE)
    /\ UNCHANGED <<config, errv, docv, visited_urls, url_queue, url_lock, sitemap_lock, sitemap, mainv, puts, ok>>

\* requests.get answers another status: "return" inside the with block
FetchNon200(w) ==
    /\ pc[w] = "fetch"
    /\ fetches' = Inc(fetches, url[w])
    /\ failed' = failed \cup {url[w]}
    /\ Return(w, TRUE)
    /\ UNCHANGED <<config, errv, docv, visited_urls, url_queue, url_lock, sitemap_lock, sitemap, mainv, puts, ok>>

\* mutant: the exception is not caught and ends the crawl_worker thread
FetchError_Propagates(w) ==
    /\ pc[w] = "fetch"
    /\ fetches' = Inc(fetches, url[w])
    /\ failed' = failed \cup {url[w]}
    /\ semaphore' = semaphore + 1
    /\ pc' = [pc EXCEPT ![w] = "exited"]
    /\ UNCHANGED <<config, errv, docv, visited_urls, url_queue, url_lock, sitemap_lock, sitemap, mainv, url, links, puts, processed, ok>>

\* requests.get raises (timeout, transport error): caught by "except Exception"
FetchError(w) ==
    /\ pc[w] = "fetch"
    /\ fetches' = Inc(fetches, url[w])
    /\ failed' = failed \cup {url[w]}
    /\ Return(w, TRUE)
    /\ UNCHANGED <<config, errv, docv, visited_urls, url_queue, url_lock, sitemap_lock, sitemap, mainv, puts, ok>>

(* ---------------- append_to_sitemap ---------------- *)
\* "with self.sitemap_lock:" entered by worker w standing at label from
\* mutant: append_to_sitemap enters its write section without waiting for sitemap_lock
append_to_sitemap_lock_NoWait(w, from, to) ==
    /\ pc[w] = from
    /\ sitemap_lock' = w
    /\ pc' = [pc EXCEPT ![w] = to]

append_to_sitemap_lock(w, from, to) ==
    /\ pc[w] = from
    /\ sitemap_lock = Free
    /\ sitemap_lock' = w
    /\ pc' = [pc EXCEPT ![w] = to]

\* the six lines of one entry, then the lock is released
append_to_sitemap_write(u) ==
    /\ sitemap' = sitemap \o EntryLines(u)
    /\ sitemap_lock' = Free

\* process_url: self.append_to_sitemap(url), taking the lock
AppendUrlLock(w) ==
    /\ append_to_sitemap_lock(w, "append", "write")
    /\ UNCHANGED <<config, errv, docv, visited_urls, url_queue, url_lock, semaphore, sitemap, mainv, url, links, ghost>>

\* process_url: self.append_to_sitemap(url), writing the entry
AppendUrlWrite(w) ==
    /\ pc[w] = "write"
    /\ append_to_sitemap_write(url[w])
    /\ pc' = [pc EXCEPT ![w] = "recorded"]
    /\ UNCHANGED <<config, errv, docv, visited_urls, url_queue, url_lock, semaphore, mainv, url, links, ghost>>

\* "if not self.should_process_links(url): return", else soup.find_all('a')
\* starts the loop over the page's anchors
ProcessLinksOrReturn(w) ==
    /\ pc[w] = "recorded"
    /\ IF should_process_links(url[w])
       THEN /\ links' = [links EXCEPT ![w] = Anchors(url[w])]
            /\ pc' = [pc EXCEPT ![w] = "loop"]
            /\ UNCHANGED <<semaphore, processed, url>>
       ELSE Return(w, TRUE)
    /\ UNCHANGED <<config, errv, docv, visited_urls, url_queue, url_lock, sitemap_lock, sitemap, mainv, puts, fetches, ok, failed>>

\* "if not href: continue"
SkipEmptyHref(w) ==
    /\ pc[w] = "loop"
    /\ links[w] # <<>>
    /\ Head(links[w]) = NoHref
    /\ links' = [links EXCEPT ![w] = Tail(@)]
    /\ UNCHANGED <<config, errv, docv, visited_urls, url_queue, locks, sitemap, mainv, pc, url, ghost>>

\* is_valid_link_to_crawl(full_url) is false: next anchor
SkipLink(w) ==
    /\ pc[w] = "loop"
    /\ links[w] # <<>>
    /\ Head(links[w]) # NoHref
    /\ ~urljoin_raises(Head(links[w]))
    /\ ~is_valid_link_to_crawl(urljoin(url[w], Head(links[w])))
    /\ links' = [links EXCEPT ![w] = Tail(@)]
    /\ UNCHANGED <<config, errv, docv, visited_urls, url_queue, locks, sitemap, mainv, pc, url, ghost>>

\* is_valid_link_to_crawl(full_url) is true (visited_urls read without the lock)
ValidLink(w) ==
    /\ pc[w] = "loop"
    /\ links[w] # <<>>
    /\ Head(links[w]) # NoHref
    /\ ~urljoin_raises(Head(links[w]))
    /\ is_valid_link_to_crawl(urljoin(url[w], Head(links[w])))
    /\ pc' = [pc EXCEPT ![w] = "found"]
    /\ UNCHANGED <<config, errv, docv, visited_urls, url_queue, locks, sitemap, mainv, url, links, ghost>>

\* the loop is over: process_url returns, the slot is released
EndOfLinks(w) ==
    /\ pc[w] = "loop"
    /\ links[w] = <<>>
    /\ Return(w, TRUE)
    /\ UNCHANGED <<config, errv, docv, visited_urls, url_queue, url_lock, sitemap_lock, sitemap, mainv, puts, fetches, ok, failed>>

(* ---------------- process_found_link ---------------- *)
\* mutant: a new link is recorded but never put on url_queue
process_found_link_NoPut(w) ==
    LET full_url == urljoin(url[w], Head(links[w])) IN
    /\ pc[w] = "found"
    /\ url_lock = Free
    /\ IF full_url \notin visited_urls
       THEN /\ visited_urls' = visited_urls \cup {full_url}
            /\ url_lock' = w
            /\ pc' = [pc EXCEPT ![w] = "pfl_append"]
            /\ UNCHANGED links
       ELSE /\ links' = [links EXCEPT ![w] = Tail(@)]
            /\ pc' = [pc EXCEPT ![w] = "loop"]
            /\ UNCHANGED <<visited_urls, url_lock>>
    /\ UNCHANGED <<config, errv, docv, url_queue, puts, sitemap_lock, semaphore, sitemap, mainv, url, fetches, processed, ok, failed>>

\* "with self.url_lock: if full_url not in self.visited_urls:" add, put when
\* recursive, and go on to append_to_sitemap with url_lock held; a link
\* already visited leaves the block at once
process_found_link(w) ==
    LET full_url == urljoin(url[w], Head(links[w])) IN
    /\ pc[w] = "found"
    /\ url_lock = Free
    /\ IF full_url \notin visited_urls
       THEN /\ visited_urls' = visited_urls \cup {full_url}
            /\ IF recursive
               THEN url_queue' = Append(url_queue, full_url) /\ puts' = Inc(puts, full_url)
               ELSE UNCHANGED <<url_queue, puts>>
            /\ url_lock' = w
            /\ pc' = [pc EXCEPT ![w] = "pfl_append"]
            /\ UNCHANGED links
       ELSE /\ links' = [links EXCEPT ![w] = Tail(@)]
            /\ pc' = [pc EXCEPT ![w] = "loop"]
            /\ UNCHANGED <<visited_urls, url_queue, puts, url_lock>>
    /\ UNCHANGED <<config, errv, docv, sitemap_lock, semaphore, sitemap, mainv, url, fetches, processed, ok, failed>>

\* process_found_link: self.append_to_sitemap(full_url), taking the lock
AppendLinkLock(w) ==
    /\ append_to_sitemap_lock(w, "pfl_append", "pfl_write")
    /\ UNCHANGED <<config, errv, docv, visited_urls, url_queue, url_lock, semaphore, sitemap, mainv, url, links, ghost>>

\* mutant: process_found_link leaves its critical section without releasing url_lock
AppendLinkWrite_KeepsUrlLock(w) ==
    /\ pc[w] = "pfl_write"
    /\ append_to_sitemap_write(urljoin(url[w], Head(links[w])))
    /\ links' = [links EXCEPT ![w] = Tail(@)]
    /\ pc' = [pc EXCEPT ![w] = "loop"]
    /\ UNCHANGED <<config, errv, docv, visited_urls, url_queue, url_lock, semaphore, mainv, url, ghost>>

\* process_found_link: the entry is written, both locks are released
AppendLinkWrite(w) ==
    /\ pc[w] = "pfl_write"
    /\ append_to_sitemap_write(urljoin(url[w], Head(links[w])))
    /\ url_lock' = Free
    /\ links' = [links EXCEPT ![w] = Tail(@)]
    /\ pc' = [pc EXCEPT ![w] = "loop"]
    /\ UNCHANGED <<config, errv, docv, visited_urls, url_queue, semaphore, mainv, url, ghost>>

(* ---------------- spider_sitemap.py as a whole ---------------- *)
MainStep ==
    \/ _init_sitemap_file
    \/ SeedRoot
    \/ SubmitWorker
    \/ JoinWorkers
    \/ FinalizeLock
    \/ FinalizeWrite

LinkStep(w) ==
    \/ SkipEmptyHref(w)
    \/ SkipLink(w)
    \/ ValidLink(w)
    \/ EndOfLinks(w)
    \/ process_found_link(w)
    \/ AppendLinkLock(w)
    \/ AppendLinkWrite(w)

Next ==
    \/ MainStep
    \/ \E w \in Workers :
        \/ Get(w)
        \/ Timeout(w)
        \/ EnterProcessUrl(w)
        \/ Fetch200(w)
        \/ FetchNon200(w)
        \/ FetchError(w)
        \/ AppendUrlLock(w)
        \/ AppendUrlWrite(w)
        \/ ProcessLinksOrReturn(w)
        \/ LinkStep(w)

Spec == Init /\ [][Next]_vars

(* ---------------- spider_sitemap.py under fair scheduling ---------------- *)
\* one step of the crawl_worker thread w
WorkerStep(w) ==
    \/ Get(w)
    \/ Timeout(w)
    \/ EnterProcessUrl(w)
    \/ Fetch200(w)
    \/ FetchNon200(w)
    \/ FetchError(w)
    \/ AppendUrlLock(w)
    \/ AppendUrlWrite(w)
    \/ ProcessLinksOrReturn(w)
    \/ LinkStep(w)

\* termination does not depend on what the output file held before the run
InitFair ==
    /\ Init
    /\ base_urls \in {<<Root>>, <<Root, PageA>>}
    /\ sitemap = <<>>

\* every thread that can take a step eventually takes one; requests.get
\* has timeout=10 and queue.get has timeout=1, so both always come back
FairSpec ==
    /\ InitFair
    /\ [][Next]_vars
    /\ WF_vars(MainStep)
    /\ \A w \in Workers : WF_vars(WorkerStep(w))

(* ---------------- spider_sitemap.py with failing links and failing writes ---------------- *)
\* "full_url = urljoin(url, href)" raises: the exception leaves the for loop
\* and is caught by "except Exception" of process_url, which then returns
UrljoinRaises(w) ==
    /\ pc[w] = "loop"
    /\ links[w] # <<>>
    /\ urljoin_raises(Head(links[w]))
    /\ Return(w, TRUE)
    /\ UNCHANGED <<config, errv, docv, visited_urls, url_queue, url_lock, sitemap_lock, sitemap, mainv, puts, fetches, ok, failed>>

\* process_url: append_to_sitemap(url) raises OSError on open or write: the
\* with block releases sitemap_lock, "except Exception" prints and returns
AppendUrlWriteFails(w) ==
    /\ pc[w] = "write"
    /\ sitemap_lock' = Free
    /\ write_failed' = TRUE
    /\ Return(w, TRUE)
    /\ UNCHANGED <<config, docv, visited_urls, url_queue, url_lock, sitemap, mainv, puts, fetches, ok, failed>>

\* process_found_link: append_to_sitemap(full_url) raises OSError: both with
\* blocks release their locks, the exception leaves the for loop and is
\* caught by "except Exception" of process_url
AppendLinkWriteFails(w) ==
    /\ pc[w] = "pfl_write"
    /\ sitemap_lock' = Free
    /\ url_lock' = Free
    /\ write_failed' = TRUE
    /\ Return(w, TRUE)
    /\ UNCHANGED <<config, docv, visited_urls, url_queue, sitemap, mainv, puts, fetches, ok, failed>>

\* a run over the plain section or over the section with the bad href
InitErr ==
    /\ base_urls \in {<<Root>>, <<ErrRoot>>}
    /\ recursive \in BOOLEAN
    /\ max_workers \in 1..MaxWorkers
    /\ max_concurrent_requests \in {1, MaxConcurrentRequests}
    /\ visited_urls = {}
    /\ url_queue = <<>>
    /\ url_lock = Free
    /\ sitemap_lock = Free
    /\ semaphore = max_concurrent_requests
    /\ sitemap = <<>>
    /\ mainpc = "init"
    /\ i = 1
    /\ pc = [w \in Workers |-> "idle"]
    /\ url = [w \in Workers |-> NoUrl]
    /\ links = [w \in Workers |-> <<>>]
    /\ puts = [u \in AllUrls |-> 0]
    /\ fetches = [u \in AllUrls |-> 0]
    /\ processed = [u \in AllUrls |-> 0]
    /\ ok = {}
    /\ failed = {}
    /\ futures = <<>>
    /\ task = [w \in Workers |-> 0]
    /\ write_failed = FALSE

NextErr ==
    \/ Next
    \/ \E w \in Workers :
        \/ UrljoinRaises(w)
        \/ AppendUrlWriteFails(w)
        \/ AppendLinkWriteFails(w)

SpecErr == InitErr /\ [][NextErr]_vars

(* ---------------- spider_sitemap.py, append_to_sitemap write by write ---------------- *)
\* the first f.write calls of one entry: <url>, <loc>, <lastmod>; the lock stays held
append_to_sitemap_open(u) ==
    /\ sitemap' = sitemap \o SubSeq(EntryLines(u), 1, 3)
    /\ UNCHANGED sitemap_lock

\* the remaining f.write calls: <changefreq>, <priority>, </url>; the lock is released
append_to_sitemap_close(u) ==
    /\ sitemap' = sitemap \o SubSeq(EntryLines(u), 4, 6)
    /\ sitemap_lock' = Free

\* process_url: self.append_to_sitemap(url), first writes
AppendUrlWriteOpen(w) ==
    /\ pc[w] = "write"
    /\ append_to_sitemap_open(url[w])
    /\ pc' = [pc EXCEPT ![w] = "write_rest"]
    /\ UNCHANGED <<config, errv, docv, visited_urls, url_queue, url_lock, semaphore, mainv, url, links, ghost>>

\* process_url: self.append_to_sitemap(url), last writes and release
AppendUrlWriteClose(w) ==
    /\ pc[w] = "write_rest"
    /\ append_to_sitemap_close(url[w])
    /\ pc' = [pc EXCEPT ![w] = "recorded"]
    /\ UNCHANGED <<config, errv, docv, visited_urls, url_queue, url_lock, semaphore, mainv, url, links, ghost>>

\* process_found_link: self.append_to_sitemap(full_url), first writes
AppendLinkWriteOpen(w) ==
    /\ pc[w] = "pfl_write"
    /\ append_to_sitemap_open(urljoin(url[w], Head(links[w])))
    /\ pc' = [pc EXCEPT ![w] = "pfl_write_rest"]
    /\ UNCHANGED <<config, errv, docv, visited_urls, url_queue, url_lock, semaphore, mainv, url, links, ghost>>

\* process_found_link: last writes, then both locks are released
AppendLinkWriteClose(w) ==
    /\ pc[w] = "pfl_write_rest"
    /\ append_to_sitemap_close(urljoin(url[w], Head(links[w])))
    /\ url_lock' = Free
    /\ links' = [links EXCEPT ![w] = Tail(@)]
    /\ pc' = [pc EXCEPT ![w] = "loop"]
    /\ UNCHANGED <<config, errv, docv, visited_urls, url_queue, semaphore, mainv, url, ghost>>

\* a run over a fresh output file
InitLines ==
    /\ Init
    /\ base_urls \in {<<Root>>, <<Root, PageA>>}
    /\ sitemap = <<>>

NextLines ==
    \/ MainStep
    \/ \E w \in Workers :
        \/ Get(w)
        \/ Timeout(w)
        \/ EnterProcessUrl(w)
        \/ Fetch200(w)
        \/ FetchNon200(w)
        \/ FetchError(w)
        \/ AppendUrlLock(w)
        \/ AppendUrlWriteOpen(w)
        \/ AppendUrlWriteClose(w)
        \/ ProcessLinksOrReturn(w)
        \/ SkipEmptyHref(w)
        \/ SkipLink(w)
        \/ ValidLink(w)
        \/ EndOfLinks(w)
        \/ process_found_link(w)
        \/ AppendLinkLock(w)
        \/ AppendLinkWriteOpen(w)
        \/ AppendLinkWriteClose(w)

SpecLines == InitLines /\ [][NextLines]_vars

(* ================ spider_sitemap_v2.py ================ *)
\* crawl_parallel submits crawl_worker once, whatever max_workers is
SubmitWorkerV2 ==
    /\ mainpc = "submit"
    /\ pc' = [pc EXCEPT ![1] = "get"]
    /\ mainpc' = "join"
    /\ UNCHANGED <<config, errv, docv, visited_urls, url_queue, locks, sitemap, i, url, links, ghost>>

\* "for worker in workers: worker.result()" over the one future submitted
JoinWorkersV2 ==
    /\ mainpc = "join"
    /\ pc[1] = "exited"
    /\ mainpc' = "finalize"
    /\ UNCHANGED <<config, errv, docv, visited_urls, url_queue, locks, sitemap, i, pc, url, links, ghost>>

\* process_url: "with self.url_lock: if url not in self.visited_urls:
\* self.append_to_sitemap(url)", both locks taken and released
RecordIfNotVisited(w) ==
    /\ pc[w] = "append"
    /\ url_lock = Free
    /\ IF url[w] \notin visited_urls
       THEN /\ sitemap_lock = Free
            /\ sitemap' = sitemap \o EntryLinesV2(url[w])
       ELSE UNCHANGED sitemap
    /\ pc' = [pc EXCEPT ![w] = "recorded"]
    /\ UNCHANGED <<config, errv, docv, visited_urls, url_queue, locks, mainv, url, links, ghost>>

\* process_found_link: the entry is written, both locks are released
AppendLinkWriteV2(w) ==
    /\ pc[w] = "pfl_write"
    /\ sitemap' = sitemap \o EntryLinesV2(urljoin(url[w], Head(links[w])))
    /\ sitemap_lock' = Free
    /\ url_lock' = Free
    /\ links' = [links EXCEPT ![w] = Tail(@)]
    /\ pc' = [pc EXCEPT ![w] = "loop"]
    /\ UNCHANGED <<config, errv, docv, visited_urls, url_queue, semaphore, mainv, url, ghost>>

MainStepV2 ==
    \/ _init_sitemap_file
    \/ SeedRoot
    \/ SubmitWorkerV2
    \/ JoinWorkersV2
    \/ FinalizeLock
    \/ FinalizeWrite

NextV2 ==
    \/ MainStepV2
    \/ \E w \in Workers :
        \/ Get(w)
        \/ Timeout(w)
        \/ EnterProcessUrl(w)
        \/ Fetch200(w)
        \/ FetchNon200(w)
        \/ FetchError(w)
        \/ RecordIfNotVisited(w)
        \/ ProcessLinksOrReturn(w)
        \/ SkipEmptyHref(w)
        \/ SkipLink(w)
        \/ ValidLink(w)
        \/ EndOfLinks(w)
        \/ process_found_link(w)
        \/ AppendLinkLock(w)
        \/ AppendLinkWriteV2(w)

SpecV2 == Init /\ [][NextV2]_vars

(* ================ spider_doc.py ================ *)
\* the class attribute WebCrawler.root_urls
DocRootUrls == <<Root, Foreign>>

doc_is_under_root_urls(u) == \E k \in 1..Len(DocRootUrls) : startswith(u, DocRootUrls[k])

\* main constructs one crawler per root: WebCrawler(start_url); no worker
\* thread exists before the first submit
InitDoc ==
    /\ base_urls \in {<<DocRootUrls[k]>> : k \in 1..Len(DocRootUrls)}
    /\ recursive = TRUE
    /\ max_workers \in 1..MaxWorkers
    /\ max_concurrent_requests \in {1, MaxConcurrentRequests}
    /\ visited_urls = {}
    /\ url_queue = <<>>
    /\ url_lock = Free
    /\ sitemap_lock = Free
    /\ semaphore = max_concurrent_requests
    /\ sitemap = <<>>
    /\ mainpc = "d_start"
    /\ i = 1
    /\ pc = [w \in Workers |-> "idle"]
    /\ url = [w \in Workers |-> NoUrl]
    /\ links = [w \in Workers |-> <<>>]
    /\ puts = [u \in AllUrls |-> 0]
    /\ fetches = [u \in AllUrls |-> 0]
    /\ processed = [u \in AllUrls |-> 0]
    /\ ok = {}
    /\ failed = {}
    /\ futures = <<>>
    /\ task = [w \in Workers |-> 0]
    /\ write_failed = FALSE

\* crawl_parallel: self.url_queue.put(self.base_url)
DocPutBase ==
    /\ mainpc = "d_start"
    /\ url_queue' = Append(url_queue, base_urls[1])
    /\ puts' = Inc(puts, base_urls[1])
    /\ mainpc' = "d_get"
    /\ UNCHANGED <<config, errv, docv, visited_urls, locks, sitemap, i, pc, url, links, fetches, processed, ok, failed>>

\* get returns a url already in visited_urls: task_done, continue
DocSkipVisited ==
    /\ mainpc = "d_get"
    /\ url_queue # <<>>
    /\ url_lock = Free
    /\ Head(url_queue) \in visited_urls
    /\ url_queue' = Tail(url_queue)
    /\ UNCHANGED <<config, errv, docv, visited_urls, locks, sitemap, mainv, pc, url, links, ghost>>

\* get returns a new url: visited_urls.add under url_lock, then
\* executor.submit(self.process_url, url) and futures.append
DocSubmit ==
    /\ mainpc = "d_get"
    /\ url_queue # <<>>
    /\ url_lock = Free
    /\ Head(url_queue) \notin visited_urls
    /\ visited_urls' = visited_urls \cup {Head(url_queue)}
    /\ futures' = Append(futures, [url |-> Head(url_queue), st |-> "pending"])
    /\ url_queue' = Tail(url_queue)
    /\ UNCHANGED <<config, errv, task, locks, sitemap, mainv, pc, url, links, ghost>>

\* url_queue.get(timeout=5) raises: control enters the except block
DocTimeout ==
    /\ mainpc = "d_get"
    /\ url_queue = <<>>
    /\ mainpc' = "d_poll"
    /\ UNCHANGED <<config, errv, docv, visited_urls, url_queue, locks, sitemap, i, pc, url, links, ghost>>

all_futures_done == \A k \in 1..Len(futures) : futures[k].st = "done"

\* "if all(future.done() for future in futures): break"
DocBreak ==
    /\ mainpc = "d_poll"
    /\ all_futures_done
    /\ mainpc' = "d_done"
    /\ UNCHANGED <<config, errv, docv, visited_urls, url_queue, locks, sitemap, i, pc, url, links, ghost>>

\* some future is not done: continue
DocContinue ==
    /\ mainpc = "d_poll"
    /\ ~all_futures_done
    /\ mainpc' = "d_get"
    /\ UNCHANGED <<config, errv, docv, visited_urls, url_queue, locks, sitemap, i, pc, url, links, ghost>>

\* a thread of the pool (at most max_workers of them) takes the oldest
\* pending work item and calls process_url(url)
DocStartTask(w) ==
    /\ w <= max_workers
    /\ pc[w] = "idle"
    /\ \E k \in 1..Len(futures) :
        /\ futures[k].st = "pending"
        /\ \A j \in 1..(k - 1) : futures[j].st # "pending"
        /\ futures' = [futures EXCEPT ![k].st = "running"]
        /\ task' = [task EXCEPT ![w] = k]
        /\ url' = [url EXCEPT ![w] = futures[k].url]
    /\ pc' = [pc EXCEPT ![w] = "process_url"]
    /\ UNCHANGED <<config, errv, visited_urls, url_queue, locks, sitemap, mainv, links, ghost>>

\* process_url returns: the future is done, the thread is idle again
DocFinish(w, slot) ==
    /\ semaphore' = IF slot THEN semaphore + 1 ELSE semaphore
    /\ processed' = Inc(processed, url[w])
    /\ futures' = [futures EXCEPT ![task[w]].st = "done"]
    /\ task' = [task EXCEPT ![w] = 0]
    /\ pc' = [pc EXCEPT ![w] = "idle"]
    /\ url' = [url EXCEPT ![w] = NoUrl]
    /\ links' = [links EXCEPT ![w] = <<>>]

\* "if not self.is_valid_url(url) or not self.is_under_root_urls(url): return",
\* else "with self.semaphore:" takes a slot
DocEnter(w) ==
    /\ pc[w] = "process_url"
    /\ IF ~is_valid_url(url[w]) \/ ~doc_is_under_root_urls(url[w])
       THEN DocFinish(w, FALSE)
       ELSE /\ semaphore > 0
            /\ semaphore' = semaphore - 1
            /\ pc' = [pc EXCEPT ![w] = "fetch"]
            /\ UNCHANGED <<docv, url, links, processed>>
    /\ UNCHANGED <<config, errv, visited_urls, url_queue, url_lock, sitemap_lock, sitemap, mainv, puts, fetches, ok, failed>>

\* requests.get answers 200: soup.find_all('a') starts the loop
DocFetch200(w) ==
    /\ pc[w] = "fetch"
    /\ fetches' = Inc(fetches, url[w])
    /\ ok' = ok \cup {url[w]}
    /\ links' = [links EXCEPT ![w] = Anchors(url[w])]
    /\ pc' = [pc EXCEPT ![w] = "loop"]
    /\ UNCHANGED <<config, errv, docv, visited_urls, url_queue, locks, sitemap, mainv, url, puts, processed, failed>>

\* requests.get answers another status, or raises
DocFetchFailed(w) ==
    /\ pc[w] = "fetch"
    /\ fetches' = Inc(fetches, url[w])
    /\ failed' = failed \cup {url[w]}
    /\ DocFinish(w, TRUE)
    /\ UNCHANGED <<config, errv, visited_urls, url_queue, url_lock, sitemap_lock, sitemap, mainv, puts, ok>>

\* one anchor: "if href:", urljoin, and url_queue.put(full_url) when the
\* link is on the crawl domain and under a root
DocLink(w) ==
    LET href == Head(links[w])
        full_url == urljoin(url[w], href) IN
    /\ pc[w] = "loop"
    /\ links[w] # <<>>
    /\ IF href # NoHref /\ netloc(full_url) = domain /\ doc_is_under_root_urls(full_url)
       THEN url_queue' = Append(url_queue, full_url) /\ puts' = Inc(puts, full_url)
       ELSE UNCHANGED <<url_queue, puts>>
    /\ links' = [links EXCEPT ![w] = Tail(@)]
    /\ UNCHANGED <<config, errv, docv, visited_urls, locks, sitemap, mainv, pc, url, fetches, processed, ok, failed>>

\* the loop is over: process_url returns
DocEndOfLinks(w) ==
    /\ pc[w] = "loop"
    /\ links[w] = <<>>
    /\ DocFinish(w, TRUE)
    /\ UNCHANGED <<config, errv, visited_urls, url_queue, url_lock, sitemap_lock, sitemap, mainv, puts, fetches, ok, failed>>

NextDoc ==
    \/ DocPutBase
    \/ DocSkipVisited
    \/ DocSubmit
    \/ DocTimeout
    \/ DocBreak
    \/ DocContinue
    \/ \E w \in Workers :
        \/ DocStartTask(w)
        \/ DocEnter(w)
        \/ DocFetch200(w)
        \/ DocFetchFailed(w)
        \/ DocLink(w)
        \/ DocEndOfLinks(w)

SpecDoc == InitDoc /\ [][NextDoc]_vars

(* ================ properties ================ *)
\* worker w is executing process_url
InProcessUrl(w) == pc[w] \notin {"idle", "get", "exited"}
\* the URLs process_found_link inserted into visited_urls (the roots are
\* inserted by crawl_parallel before any worker runs)
FoundLinks == visited_urls \ root_urls
\* crawl_parallel has returned
Returned == mainpc \in {"finalize", "footer", "done"}

\* C1: every URL that process_found_link inserted into visited_urls is
\* written to the sitemap exactly once over the whole run: never twice at
\* any moment, and once when the run is over.
C1_FoundLinkWrittenOnce ==
    \A u \in FoundLinks :
        /\ Count(sitemap, u) <= 1
        /\ mainpc = "done" => Count(sitemap, u) = 1

\* how many <loc> lines of a file written by spider_sitemap_v2.py name u
CountV2(f, u) == Cardinality({k \in 1..Len(f) : f[k] = LocLine(quote(u))})

\* C2: in spider_sitemap_v2.py every root URL whose fetch returned 200 is in
\* the sitemap when the run ends.
C2_OkRootWritten ==
    mainpc = "done" => \A r \in root_urls \cap ok : CountV2(sitemap, r) >= 1

\* C3: no URL is put on url_queue more than once and no URL is fetched more
\* than once during one crawl_parallel run.
C3_AtMostOnce ==
    \A u \in AllUrls : puts[u] <= 1 /\ fetches[u] <= 1

\* C4: a crawl_worker leaves its loop only in a state where url_queue is
\* empty and no other worker is executing process_url.
C4_ExitOnlyWhenIdle ==
    [][\A w \in Workers :
         (pc[w] # "exited" /\ pc'[w] = "exited")
            => (url_queue = <<>> /\ \A v \in Workers \ {w} : ~InProcessUrl(v))]_vars

\* C5: whenever crawl_parallel has returned, url_queue is empty, no
\* process_url call is in progress, and every URL that was put on the queue
\* has been processed (as many process_url returns as puts).
C5_ReturnedMeansDrained ==
    Returned =>
        /\ url_queue = <<>>
        /\ \A w \in Workers : ~InProcessUrl(w)
        /\ \A u \in AllUrls : processed[u] = puts[u]

\* C5 witness: a two-worker recursive run has returned after PageC, found
\* on a fetched page, was queued and processed.
C5_Witness ==
    /\ mainpc = "finalize"
    /\ max_workers = 2
    /\ puts[PageC] = 1
    /\ processed[PageC] = 1
    /\ fetches[PageC] = 1

\* C6: the coordinator loop of spider_doc.py breaks only in a state where
\* url_queue is empty and every submitted process_url task has finished.
C6_BreakOnlyWhenDrained ==
    mainpc = "d_done" => (url_queue = <<>> /\ all_futures_done)

\* the anchors of page u resolved against it, empty hrefs dropped
Targets(u) == {urljoin(u, h) : h \in Range(Anchors(u)) \ {NoHref}}
\* same-host, in-scope URLs
InScope(u) == netloc(u) = domain /\ is_under_root_urls(u)
\* the same-host in-scope link targets found on root pages
RootLinkTargets == {t \in UNION {Targets(r) : r \in root_urls} : InScope(t)}

RECURSIVE ReachableFrom(_)
ReachableFrom(S) ==
    LET more == S \cup {t \in UNION {Targets(u) : u \in S} : InScope(t)}
    IN  IF more = S THEN S ELSE ReachableFrom(more)

Touched(u) ==
    \/ fetches[u] > 0
    \/ puts[u] > 0
    \/ u \in Range(url_queue)
    \/ u \in visited_urls
    \/ Count(sitemap, u) > 0

\* C9 as claimed: a URL that starts with none of the root prefixes, or whose
\* host differs from the crawl domain, is never fetched, enqueued, added to
\* visited_urls or written to the sitemap.
C9_OutOfScopeUntouched ==
    mainpc # "init" =>
        \A u \in AllUrls :
            (~is_under_root_urls(u) \/ netloc(u) # domain) => ~Touched(u)

\* C9 amended: the same for every URL that starts with none of the root
\* prefixes, and for every URL other than the configured roots themselves
\* whose host differs from the crawl domain.
C9_OutOfScopeUntouchedExceptRoots ==
    mainpc # "init" =>
        \A u \in AllUrls :
            (~is_under_root_urls(u) \/ (netloc(u) # domain /\ u \notin root_urls))
                => ~Touched(u)

\* C9 witness: with a root on another host, the pages linking to OutPage
\* (out of every prefix) and to ForeignQ (under a prefix, on the other host)
\* have been fetched and their anchors gone through.
C9_Witness ==
    /\ base_urls = <<Root, Foreign>>
    /\ recursive
    /\ mainpc = "done"
    /\ {Root, PageA, Foreign} \subseteq ok
    /\ processed[Root] = 1 /\ processed[PageA] = 1 /\ processed[Foreign] = 1
    /\ failed = {}

\* how many lines of file f equal line
Lines(f, line) == Cardinality({k \in 1..Len(f) : f[k] = line})

\* C10: once the file is initialised it starts with the header, written
\* once; the footer is written at most once, exactly once when the run is
\* over, only after every crawl_worker has exited, and it is the last line
\* of the file: no entry is written after it.
C10_HeaderFirstFooterLast ==
    mainpc # "init" =>
        /\ Len(sitemap) >= 2 /\ SubSeq(sitemap, 1, 2) = HeaderLines
        /\ Lines(sitemap, HeaderLines[1]) = 1 /\ Lines(sitemap, HeaderLines[2]) = 1
        /\ Lines(sitemap, FooterLine) = (IF mainpc = "done" THEN 1 ELSE 0)
        /\ mainpc = "done" => sitemap[Len(sitemap)] = FooterLine
        /\ mainpc \in {"finalize", "footer", "done"} =>
               \A w \in Workers : pc[w] \in {"idle", "exited"}

\* C10 witness: a two-worker run is over with entries between the header
\* and the footer.
C10_Witness ==
    /\ mainpc = "done"
    /\ max_workers = 2
    /\ Len(sitemap) > 2 + 6 + 1
    /\ sitemap[Len(sitemap)] = FooterLine
    /\ \A w \in Workers : pc[w] = "exited"

\* the links process_url follows on page u: u was fetched with 200 and the
\* mode designates it for link-following
Followed(u) ==
    IF u \in ok /\ (recursive \/ u \in root_urls)
    THEN {t \in Targets(u) : InScope(t)}
    ELSE {}

\* the URLs reachable from S along pages that were fetched successfully
RECURSIVE OkReachableFrom(_)
OkReachableFrom(S) ==
    LET more == S \cup UNION {Followed(u) : u \in S}
    IN  IF more = S THEN S ELSE OkReachableFrom(more)

SlotHolders ==
    {w \in Workers : pc[w] \in {"fetch", "append", "write", "write_rest", "recorded",
                                 "loop", "found", "pfl_append", "pfl_write", "pfl_write_rest"}}

\* C12: at most max_concurrent_requests workers hold a semaphore slot, the
\* free slots and the holders always add up to max_concurrent_requests
\* (every exit path of process_url gives its slot back), and all slots are
\* free when crawl_parallel has returned.
C12_SlotsBoundedAndReleased ==
    /\ semaphore >= 0
    /\ Cardinality(SlotHolders) <= max_concurrent_requests
    /\ semaphore + Cardinality(SlotHolders) = max_concurrent_requests
    /\ Returned => semaphore = max_concurrent_requests

\* C12 witness: with one slot, a worker is fetching while the other waits
\* for the slot, after an earlier fetch failed and gave its slot back.
C12_Witness ==
    /\ max_concurrent_requests = 1
    /\ semaphore = 0
    /\ failed # {}
    /\ \E w, v \in Workers : pc[w] = "fetch" /\ pc[v] = "process_url"

\* C17: every URL in the sitemap was itself fetched with status 200.
C17_WrittenOnlyAfterOk ==
    \A u \in Listed(sitemap) : u \in ok

\* the crawl_worker loops the executor has been given
StartedWorkers == {w \in Workers : pc[w] # "idle"}

\* C18: once crawl_parallel has submitted its workers, exactly max_workers
\* crawl_worker loops have been started.
C18_StartsMaxWorkers ==
    mainpc \in {"join", "finalize", "footer", "done"} =>
        Cardinality(StartedWorkers) = max_workers

\* the workers whose crawl_worker loop is running
LiveWorkers == {w \in Workers : pc[w] \notin {"idle", "exited"}}

\* worker w waits for a slot or a lock that is not available
Blocked(w) ==
    \/ /\ pc[w] = "process_url"
       /\ is_valid_url(url[w])
       /\ is_under_root_urls(url[w])
       /\ semaphore = 0
    \/ pc[w] = "found" /\ url_lock # Free
    \/ pc[w] \in {"append", "pfl_append"} /\ sitemap_lock # Free

\* C19: the semaphore slot, url_lock and sitemap_lock are taken in that
\* nesting order only (a lock holder holds a slot, a thread asking for the
\* slot holds no lock, a thread asking for url_lock does not hold
\* sitemap_lock), and the live workers are never all blocked.
C19_LockOrderNoDeadlock ==
    /\ \A w \in Workers :
        /\ url_lock = w => w \in SlotHolders
        /\ sitemap_lock = w => w \in SlotHolders
        /\ pc[w] \in {"get", "process_url"} => url_lock # w /\ sitemap_lock # w
        /\ pc[w] \in {"loop", "found"} => url_lock # w /\ sitemap_lock # w
        /\ pc[w] \in {"append", "pfl_append"} => sitemap_lock # w
    /\ LiveWorkers # {} => \E w \in LiveWorkers : ~Blocked(w)

\* C19 witness: a worker holds a slot, url_lock and sitemap_lock at once
\* while the other worker holds a slot and waits for url_lock.
C19_Witness ==
    \E w, v \in Workers :
        /\ pc[w] = "pfl_write" /\ url_lock = w /\ sitemap_lock = w
        /\ pc[v] = "found" /\ Blocked(v)
        /\ semaphore = 0

\* the threads inside the sitemap write section
WriteSection ==
    {w \in Workers : pc[w] \in {"write", "write_rest", "pfl_write", "pfl_write_rest"}}
        \cup (IF mainpc = "footer" THEN {Main} ELSE {})

\* f is the six lines of one url entry
IsEntry(f) == Len(f) = 6 /\ f = EntryLines(Tail(f[2]))

\* f is the first three lines of one url entry
IsOpenEntry(f) == Len(f) = 3 /\ f = SubSeq(EntryLines(Tail(f[2])), 1, 3)

\* f is a sequence of whole url entries
RECURSIVE Entries(_)
Entries(f) ==
    \/ f = <<>>
    \/ /\ Len(f) >= 6
       /\ IsEntry(SubSeq(f, 1, 6))
       /\ Entries(SubSeq(f, 7, Len(f)))

\* C13: at most one thread is inside the sitemap write section, and the
\* file is the header, then whole url entries, then at most the started
\* entry of the thread inside the section, then (when the run is over) the
\* footer: the lines of an entry are never mixed with another entry or
\* with the footer.
C13_WritesMutuallyExclusive ==
    /\ Cardinality(WriteSection) <= 1
    /\ \A w \in WriteSection : sitemap_lock = w
    /\ mainpc # "init" =>
        /\ Len(sitemap) >= 2
        /\ SubSeq(sitemap, 1, 2) = HeaderLines
        /\ LET n == Len(sitemap)
               open == \E w \in Workers : pc[w] \in {"write_rest", "pfl_write_rest"}
           IN  IF mainpc = "done"
               THEN n >= 3 /\ sitemap[n] = FooterLine /\ Entries(SubSeq(sitemap, 3, n - 1))
               ELSE IF open
               THEN n >= 5 /\ IsOpenEntry(SubSeq(sitemap, n - 2, n))
                           /\ Entries(SubSeq(sitemap, 3, n - 3))
               ELSE Entries(SubSeq(sitemap, 3, n))

\* C13 witness: a worker is halfway through writing a link's entry while
\* the other worker, with a fetched page to record, waits for sitemap_lock.
C13_Witness ==
    \E w, v \in Workers :
        /\ pc[w] = "pfl_write_rest" /\ sitemap_lock = w
        /\ pc[v] = "append"
        /\ Len(sitemap) > 8

\* the positions of a worker inside the link loop of process_url
LoopPcs == {"loop", "found", "pfl_append", "pfl_write"}

\* C14: a worker handling a link that is not the last one of its page stays
\* in the link loop of that page, whatever happens to the link: it never
\* leaves process_url with links of the page unhandled.
C14_OnlyFailedLinkSkipped ==
    [][\A w \in Workers :
          (pc[w] \in LoopPcs /\ Len(links[w]) >= 2) => pc'[w] \in LoopPcs]_vars

\* C15: once a write in append_to_sitemap has failed, no URL is fetched any
\* more and the run does not reach its normal end.
C15_WriteFailureFatal ==
    [][write_failed => (fetches' = fetches /\ mainpc' # "done")]_vars

\* C16: under fair scheduling every started crawl_worker eventually exits
\* and crawl_parallel eventually returns, in both modes.
C16_WorkersExitAndCrawlReturns ==
    <>(Returned /\ \A w \in 1..max_workers : pc[w] = "exited")

\* C16 witness: a recursive two-worker run with a failed fetch is over,
\* both workers have exited and every queued URL was processed.
C16_Witness ==
    /\ mainpc = "done"
    /\ recursive
    /\ max_workers = 2
    /\ pc[1] = "exited" /\ pc[2] = "exited"
    /\ failed # {}
    /\ PageC \in ok
    /\ url_queue = <<>>

====
